---------------------------- MODULE Spec2Model ----------------------------
(***************************************************************************)
(* GBLM-Pruner: the pruning-run orchestration of main.py (get_llm, main)   *)
(* and the calibration-data sampling of lib/data.py (get_wikitext2,        *)
(* get_c4, get_loaders).                                                   *)
(*                                                                         *)
(* Representation.  A Python str that the code inspects (lower(), "in",    *)
(* split) is a tuple of one-character strings; a str the code only         *)
(* compares is a TLA+ string.  None is the tuple <<"None">> for the first  *)
(* kind and the string "None" for the second.  The float sparsity_ratio is *)
(* held in tenths (5 is 0.5).  A text is held as the token ids a tokenizer *)
(* gives it, so tokenizing with truncation is cutting to max_length.       *)
(***************************************************************************)
EXTENDS Integers, Sequences, FiniteSets, TLC

VARIABLES
    \* ---- main.py: one pruning run
    args,           \* the parsed command line (argparse namespace)
    pc,             \* the statement of main() the run is at
    err,            \* the exception that ended the run, "none" while it runs
    prune_n,        \* main.py:91
    prune_m,        \* main.py:91
    model,          \* what get_llm returned (a record), NoModel before
    processor,      \* what get_llm returned beside the model
    tokenizer,      \* the tokenizer main() resolved
    tok_attempts,   \* the from_pretrained calls made to resolve it, in order
    device,         \* main.py:122-124
    dataset_name,   \* main.py:130-132
    calls,          \* the calls made to lib.prune / lib.eval, in order
    audit,          \* what check_sparsity returned (sparsity_ratio, main.py:148)
    ppl,            \* what eval_ppl returned
    fs,             \* the file system: directories, log.txt, saved models
    stages,         \* the stages of main() entered so far, in order
    \* ---- lib/data.py: the sampler and the process-wide random module
    rng,            \* state of Python's global random generator
    dpc,            \* the statement of the sampler the call is at
    din,            \* the arguments of get_loaders and the corpus content
    inv,            \* which invocation (1 or 2) of the sampler is running
    picked,         \* the record index the c4 loop drew last, -1 if none
    trainenc,       \* the encoding being sliced
    trainloader,    \* the samples appended so far
    cuts,           \* per slice taken: record, offset, length of the encoding
    retries,        \* rejected records in the c4 loop, this invocation
    results,        \* what each finished invocation returned or raised
    others          \* draws other code made from the random module

mainvars == <<args, pc, err, prune_n, prune_m, model, processor, tokenizer,
              tok_attempts, device, dataset_name, calls, audit, ppl, fs, stages>>
datavars == <<rng, dpc, din, inv, picked, trainenc, trainloader, cuts,
              retries, results, others>>
vars == <<mainvars, datavars>>

-----------------------------------------------------------------------------
(* Python strings *)

None == <<"None">>

Upper == <<"A","B","C","D","E","F","G","H","I","J","K","L","M",
           "N","O","P","Q","R","S","T","U","V","W","X","Y","Z">>
Lower == <<"a","b","c","d","e","f","g","h","i","j","k","l","m",
           "n","o","p","q","r","s","t","u","v","w","x","y","z">>

\* str.lower() on one character
LowerChar(c) ==
    IF \E i \in 1..Len(Upper) : Upper[i] = c
    THEN Lower[CHOOSE i \in 1..Len(Upper) : Upper[i] = c]
    ELSE c

\* str.lower()
ToLower(s) == [i \in 1..Len(s) |-> LowerChar(s[i])]

\* sub in s
Contains(s, sub) ==
    \E i \in 1..(Len(s) - Len(sub) + 1) : SubSeq(s, i, i + Len(sub) - 1) = sub

\* s.split(":")
RECURSIVE SplitColon(_)
SplitColon(s) ==
    IF \A i \in 1..Len(s) : s[i] # ":"
    THEN <<s>>
    ELSE LET p == CHOOSE i \in 1..Len(s) :
                      s[i] = ":" /\ \A j \in 1..(i - 1) : s[j] # ":"
         IN  <<SubSeq(s, 1, p - 1)>> \o SplitColon(SubSeq(s, p + 1, Len(s)))

Digits == <<"0","1","2","3","4","5","6","7","8","9">>

IsDigit(c) == \E d \in 1..10 : Digits[d] = c

DigitVal(c) == (CHOOSE d \in 1..10 : Digits[d] = c) - 1

\* int(s) for a string of decimal digits
RECURSIVE ParseInt(_)
ParseInt(s) ==
    IF Len(s) = 1 THEN DigitVal(s[1])
    ELSE 10 * ParseInt(SubSeq(s, 1, Len(s) - 1)) + DigitVal(s[Len(s)])

\* int(s) raises ValueError unless s is a non-empty string of digits
IsInt(s) == Len(s) > 0 /\ \A i \in 1..Len(s) : IsDigit(s[i])

-----------------------------------------------------------------------------
(* main.py: the command line *)

\* --model values: plain, size-marked, LLaVA, vision-language, and mixes
ModelIds ==
    { <<"l","l","a","m","a","-","7","b">>,
      <<"l","l","a","m","a","-","3","0","b">>,
      <<"L","l","a","m","a","-","7","0","B">>,
      <<"L","L","a","V","A","-","7","b">>,
      <<"l","l","a","v","a","-","v","l","-","6","5","b">>,
      <<"Q","w","e","n","2",".","5","-","V","L","-","7","B">>,
      <<"q","w","e","n","-","v","l","-","7","0","b">>,
      <<"o","p","t","-","6","5","b">> }

\* --sparsity_type: choices, or None when the option is not given (main.py:74)
SparsityTypes ==
    { None,
      <<"u","n","s","t","r","u","c","t","u","r","e","d">>,
      <<"2",":","4">>,
      <<"4",":","8">> }

Unstructured == <<"u","n","s","t","r","u","c","t","u","r","e","d">>

\* --sparsity_ratio in tenths: 0 (the default), 0.3, 0.5, and -0.3, which
\* type=float accepts as it accepts any float (main.py:72)
SparsityRatios == {-3, 0, 3, 5}

\* --prune_method: choices, or "None" when the option is not given (main.py:75)
PruneMethods == {"magnitude", "wanda", "sparsegpt", "gradient", "gblm", "None"}

\* --save and --save_model: a path, or "None" (main.py:78-79)
SavePaths == {"None", "out"}
SaveModelPaths == {"None", "pruned"}

\* --layer_no (main.py:73)
LayerNos == {-1}

Args ==
    [ model : ModelIds, sparsity_type : SparsityTypes,
      sparsity_ratio : SparsityRatios, prune_method : PruneMethods,
      save : SavePaths, save_model : SaveModelPaths, layer_no : LayerNos ]

NoModel == [ kind |-> "None" ]

\* what accelerate records for device_map="auto": a sharded model names the
\* device of every block, a model that fits one device has the single key ""
DeviceMaps ==
    { [x \in {"model", "lm_head"} |-> IF x = "lm_head" THEN "cuda:1" ELSE "cuda:0"],
      [x \in {""} |-> "cuda:0"] }

-----------------------------------------------------------------------------
(* main.py: get_llm *)

LLAVA == <<"l","l","a","v","a">>
VL == <<"v","l">>
QWEN25VL == <<"q","w","e","n","2",".","5","-","v","l">>

\* model.seqlen, set in all three branches (main.py:33, 47, 61)
NominalSeqlen == 2048

\* Variant of LlmBranch: the "vl" test placed before the "llava" test
LlmBranch_VlFirst(id) ==
    IF Contains(ToLower(id), QWEN25VL) \/ Contains(ToLower(id), VL)
    THEN [ kind |-> "AutoModelForVision2Seq", processor |-> "AutoProcessor" ]
    ELSE IF Contains(ToLower(id), LLAVA)
    THEN [ kind |-> "LlavaForConditionalGeneration", processor |-> "None" ]
    ELSE [ kind |-> "AutoModelForCausalLM", processor |-> "None" ]

\* The branch get_llm takes: the class it loads and whether it returns a
\* processor (main.py:18, 36, 51)
LlmBranch(id) ==
    IF Contains(ToLower(id), LLAVA)
    THEN [ kind |-> "LlavaForConditionalGeneration", processor |-> "None" ]
    ELSE IF Contains(ToLower(id), QWEN25VL) \/ Contains(ToLower(id), VL)
    THEN [ kind |-> "AutoModelForVision2Seq", processor |-> "AutoProcessor" ]
    ELSE [ kind |-> "AutoModelForCausalLM", processor |-> "None" ]

\* The exceptions get_llm can end with: the LLaVA import (main.py:19-22), a
\* from_pretrained of the model, and in the vision branch of the processor
LlmErrors(id) ==
    {"OSError"} \cup
    (IF Contains(ToLower(id), LLAVA) THEN {"ImportError"} ELSE {})

\* What get_llm returns when nothing raises: the model with its placement
\* map dm and the nominal seqlen, and the processor or "None"
GetLlm(id, dm) ==
    [ model |-> [ kind |-> LlmBranch(id).kind, id |-> id, hf_device_map |-> dm,
                  seqlen |-> NominalSeqlen, training |-> TRUE,
                  pruned_by |-> "None" ],
      processor |-> LlmBranch(id).processor ]

-----------------------------------------------------------------------------
(* main.py: main *)

\* Variant of Raise: the exception is caught and logged, and main() goes on
\* with its next statement
Raise_Swallowed(e) ==
    /\ pc' = CASE pc = "configure" -> "load"
              [] pc = "load" -> "tokenizer"
              [] pc = "tokenizer" -> "device"
              [] pc = "device" -> "corpus"
              [] pc = "dispatch" -> "audit"
              [] pc = "audit" -> "evaluate"
              [] pc = "evaluate" -> "persist"
              [] pc = "persist" -> "save_model"
              [] OTHER -> "done"
    /\ err' = e

\* The run ends with exception e at the statement it is at
Raise(e) ==
    /\ pc' = "failed"
    /\ err' = e

\* Variant of AssertNM: the assert compiled away (python -O)
AssertNM_Stripped(a) == TRUE

\* main.py:92-93: the assert passes
AssertNM(a) == a.sparsity_type # Unstructured => a.sparsity_ratio = 5

\* main.py:90-94: the N:M check and parse.  A sparsity_type that was not
\* given is None: it differs from "unstructured", and None.split raises.
Configure ==
    /\ pc = "configure"
    /\ IF args.sparsity_type # Unstructured
       THEN IF ~AssertNM(args)
            THEN /\ Raise("AssertionError")
                 /\ UNCHANGED <<prune_n, prune_m>>
            ELSE IF args.sparsity_type = None
            THEN /\ Raise("AttributeError")
                 /\ UNCHANGED <<prune_n, prune_m>>
            ELSE LET parts == SplitColon(args.sparsity_type) IN
                 IF Len(parts) = 2 /\ IsInt(parts[1]) /\ IsInt(parts[2])
                 THEN /\ prune_n' = ParseInt(parts[1])
                      /\ prune_m' = ParseInt(parts[2])
                      /\ pc' = "load"
                      /\ UNCHANGED err
                 ELSE /\ Raise("ValueError")
                      /\ UNCHANGED <<prune_n, prune_m>>
       ELSE /\ pc' = "load"
            /\ UNCHANGED <<err, prune_n, prune_m>>
    /\ UNCHANGED <<args, model, processor, tokenizer, tok_attempts, device,
                   dataset_name, calls, audit, ppl, fs>>
    /\ stages' = Append(stages, "Configure")
    /\ UNCHANGED datavars

\* main.py:98-99: get_llm, then model.eval()
Load ==
    /\ pc = "load"
    /\ \/ \E e \in LlmErrors(args.model) :
              /\ Raise(e)
              /\ UNCHANGED <<model, processor>>
       \/ \E dm \in DeviceMaps :
              /\ model' = [GetLlm(args.model, dm).model EXCEPT !.training = FALSE]
              /\ processor' = GetLlm(args.model, dm).processor
              /\ pc' = "tokenizer"
              /\ UNCHANGED err
    /\ UNCHANGED <<args, prune_n, prune_m, tokenizer, tok_attempts, device,
                   dataset_name, calls, audit, ppl, fs>>
    /\ stages' = Append(stages, "Load")
    /\ UNCHANGED datavars

\* Variant of TokenizerChain: the except branches dropped, one load per branch
TokenizerChain_NoFallback(id, proc) ==
    IF proc # "None"
    THEN << "AutoTokenizer:language_model" >>
    ELSE << "AutoTokenizer" >>

\* The from_pretrained calls main.py:101-120 makes, first choice first
TokenizerChain(id, proc) ==
    IF proc # "None"
    THEN << "AutoTokenizer:language_model", "AutoTokenizer" >>
    ELSE IF Contains(ToLower(id), LLAVA)
    THEN << "LlamaTokenizer", "AutoTokenizer" >>
    ELSE << "AutoTokenizer" >>

\* main.py:100-120: each from_pretrained of the chain either loads or raises;
\* only the last one's exception leaves main
ResolveTokenizer ==
    /\ pc = "tokenizer"
    /\ LET chain == TokenizerChain(args.model, processor) IN
       \E n \in 1..Len(chain), ok \in BOOLEAN :
          /\ ok \/ n = Len(chain)
          /\ tok_attempts' = SubSeq(chain, 1, n)
          /\ IF ok
             THEN /\ tokenizer' = chain[n]
                  /\ pc' = "device"
                  /\ UNCHANGED err
             ELSE /\ Raise("OSError")
                  /\ UNCHANGED tokenizer
    /\ UNCHANGED <<args, prune_n, prune_m, model, processor, device,
                   dataset_name, calls, audit, ppl, fs>>
    /\ stages' = Append(stages, "ResolveTokenizer")
    /\ UNCHANGED datavars

\* main.py:123: the size markers, matched as written (no lower())
HasSizeMarker(id) ==
    \/ Contains(id, <<"3","0","b">>)
    \/ Contains(id, <<"6","5","b">>)
    \/ Contains(id, <<"7","0","b">>)

\* main.py:122-124
SelectDevice ==
    /\ pc = "device"
    /\ IF HasSizeMarker(args.model)
       THEN IF "lm_head" \in DOMAIN model.hf_device_map
            THEN /\ device' = model.hf_device_map["lm_head"]
                 /\ pc' = "corpus"
                 /\ UNCHANGED err
            ELSE /\ Raise("KeyError")
                 /\ UNCHANGED device
       ELSE /\ device' = "cuda:0"
            /\ pc' = "corpus"
            /\ UNCHANGED err
    /\ UNCHANGED <<args, prune_n, prune_m, model, processor, tokenizer,
                   tok_attempts, dataset_name, calls, audit, ppl, fs>>
    /\ stages' = Append(stages, "SelectDevice")
    /\ UNCHANGED datavars

\* main.py:130-132
DatasetName(id) ==
    IF Contains(ToLower(id), QWEN25VL) \/ Contains(ToLower(id), VL)
    THEN "qwen2.5-vl"
    ELSE "c4"

\* main.py:127-132
SelectCorpus ==
    /\ pc = "corpus"
    /\ dataset_name' = DatasetName(args.model)
    /\ pc' = "dispatch"
    /\ UNCHANGED <<args, err, prune_n, prune_m, model, processor, tokenizer,
                   tok_attempts, device, calls, audit, ppl, fs>>
    /\ stages' = Append(stages, "SelectCorpus")
    /\ UNCHANGED datavars

\* main.py:135-144: the criterion the if/elif chain calls for a prune_method,
\* "None" when no branch matches
PruneFn(method) ==
    CASE method = "wanda" -> "prune_wanda"
      [] method = "gblm" -> "prune_gblm"
      [] method = "magnitude" -> "prune_magnitude"
      [] method = "gradient" -> "prune_gradient"
      [] method = "sparsegpt" -> "prune_sparsegpt"
      [] OTHER -> "None"

\* The call main.py:136-144 makes to criterion fn
CriterionCall(fn) ==
    [ fn |-> fn, request |-> args, model |-> model.kind, tokenizer |-> tokenizer,
      device |-> device, prune_n |-> prune_n, prune_m |-> prune_m,
      layer_no |-> args.layer_no ]

\* Variant of ShouldPrune: the sparsity_ratio test dropped
ShouldPrune_Always(a) == TRUE

\* main.py:133: whether the run prunes at all
ShouldPrune(a) == a.sparsity_ratio # 0

\* main.py:133-144: the criterion either raises or returns having pruned the
\* model in place
Dispatch ==
    /\ pc = "dispatch"
    /\ IF ShouldPrune(args) /\ PruneFn(args.prune_method) # "None"
       THEN /\ calls' = Append(calls, CriterionCall(PruneFn(args.prune_method)))
            /\ \/ /\ Raise("RuntimeError")
                  /\ UNCHANGED model
               \/ /\ model' = [model EXCEPT !.pruned_by = PruneFn(args.prune_method)]
                  /\ pc' = "audit"
                  /\ UNCHANGED err
       ELSE /\ pc' = "audit"
            /\ UNCHANGED <<err, model, calls>>
    /\ UNCHANGED <<args, prune_n, prune_m, processor, tokenizer, tok_attempts,
                   device, dataset_name, audit, ppl, fs>>
    /\ stages' = Append(stages, "Dispatch")
    /\ UNCHANGED datavars

\* lib.prune.check_sparsity: the fraction of zeroed weights, in tenths
CheckSparsity(m, request) ==
    IF m.pruned_by = "None" THEN 0 ELSE request.sparsity_ratio

\* main.py:148
Audit ==
    /\ pc = "audit"
    /\ calls' = Append(calls, [ fn |-> "check_sparsity", model |-> model.kind,
                                request |-> args ])
    /\ \/ /\ Raise("RuntimeError")
          /\ UNCHANGED audit
       \/ /\ audit' = CheckSparsity(model, args)
          /\ pc' = "evaluate"
          /\ UNCHANGED err
    /\ UNCHANGED <<args, prune_n, prune_m, model, processor, tokenizer,
                   tok_attempts, device, dataset_name, ppl, fs>>
    /\ stages' = Append(stages, "Audit")
    /\ UNCHANGED datavars

\* lib.eval.eval_ppl returns a perplexity; two stand for the values it takes
PplValues == {"ppl_a", "ppl_b"}

\* main.py:152
Evaluate ==
    /\ pc = "evaluate"
    /\ calls' = Append(calls, [ fn |-> "eval_ppl", model |-> model.kind,
                                tokenizer |-> tokenizer, device |-> device ])
    /\ \/ /\ Raise("RuntimeError")
          /\ UNCHANGED ppl
       \/ \E p \in PplValues :
              /\ ppl' = p
              /\ pc' = "persist"
              /\ UNCHANGED err
    /\ UNCHANGED <<args, prune_n, prune_m, model, processor, tokenizer,
                   tok_attempts, device, dataset_name, audit, fs>>
    /\ stages' = Append(stages, "Evaluate")
    /\ UNCHANGED datavars

\* main.py:159-160: the two rows of log.txt
LogRows(sparsity, perplexity) ==
    << "actual_sparsity\tppl", [ actual_sparsity |-> sparsity, ppl |-> perplexity ] >>

\* main.py:155-160: os.path.exists(None) raises TypeError
Persist ==
    /\ pc = "persist"
    /\ IF args.save = "None"
       THEN /\ Raise("TypeError")
            /\ UNCHANGED fs
       ELSE /\ fs' = [fs EXCEPT !.dirs = @ \cup {args.save},
                                !.log = LogRows(audit, ppl)]
            /\ pc' = "save_model"
            /\ UNCHANGED err
    /\ UNCHANGED <<args, prune_n, prune_m, model, processor, tokenizer,
                   tok_attempts, device, dataset_name, calls, audit, ppl>>
    /\ stages' = Append(stages, "Persist")
    /\ UNCHANGED datavars

\* main.py:162-165
SaveModel ==
    /\ pc = "save_model"
    /\ IF args.save_model # "None"
       THEN \/ /\ Raise("OSError")
               /\ UNCHANGED fs
            \/ /\ fs' = [fs EXCEPT !.saved = <<model.kind, tokenizer>>]
               /\ pc' = "done"
               /\ UNCHANGED err
       ELSE /\ pc' = "done"
            /\ UNCHANGED <<err, fs>>
    /\ UNCHANGED <<args, prune_n, prune_m, model, processor, tokenizer,
                   tok_attempts, device, dataset_name, calls, audit, ppl>>
    /\ stages' = Append(stages, "SaveModel")
    /\ UNCHANGED datavars

-----------------------------------------------------------------------------
(* lib/data.py: Python's random module, slices, the tokenizer *)

\* The generator's states.  random.seed and random.randint are deterministic
\* functions of the state; a Lehmer generator stands for the Mersenne Twister.
RngStates == 1..30

\* The state after one draw
RngStep(r) == (3 * r) % 31

\* Variant of RandomSeed: another generator is seeded (as set_seed does,
\* data.py:10-12) and the random module keeps its state
RandomSeed_Unapplied(r, seed) == r

\* random.seed(seed): the state depends on the seed alone (data.py:36, 58)
RandomSeed(r, seed) == 1 + (seed % 30)

\* random.randint(a, b) raises ValueError on an empty range
RandintRaises(a, b) == b < a

\* random.randint(a, b) from state r, for a <= b: a value in a..b
Randint(r, a, b) == a + (RngStep(r) % (b - a + 1))

Min(a, b) == IF a <= b THEN a ELSE b

\* s[i:j] of a sequence for 0 <= i, 0 <= j: Python clamps j to len(s)
PySlice(s, i, j) == SubSeq(s, i + 1, Min(j, Len(s)))

\* Variant of MaxLength: no truncation for a tokenizer without model_max_length
MaxLength_NoFallback(tok, seqlen) ==
    IF "model_max_length" \in DOMAIN tok THEN tok.model_max_length ELSE 1000000

\* getattr(tokenizer, 'model_max_length', seqlen) (data.py:27, 55)
MaxLength(tok, seqlen) ==
    IF "model_max_length" \in DOMAIN tok THEN tok.model_max_length ELSE seqlen

\* tokenizer(text, max_length=max_length, truncation=True).input_ids
Tokenize(text, max_length) == PySlice(text, 0, max_length)

\* .attention_mask of an encoding: one 1 per token
AttentionMask(ids) == [i \in 1..Len(ids) |-> 1]

\* " ".join(records), as token ids
RECURSIVE Join(_)
Join(records) ==
    IF records = <<>> THEN <<>> ELSE Head(records) \o Join(Tail(records))

\* Variant of OffsetHi: the window length not subtracted
OffsetHi_NoSeqlen(n, seqlen) == n - 1

\* data.py:39, 66: the largest start offset in an encoding of n tokens
OffsetHi(n, seqlen) == n - seqlen - 1

\* Variant of Target: line 44 enabled, all but the last target masked
Target_Masked(inp) == [i \in 1..Len(inp) |-> IF i < Len(inp) THEN -100 ELSE inp[i]]

\* data.py:43, 70: tar = inp.clone(); the masking line 44 is commented out
Target(inp) == inp

\* data.py:40-45, 67-72: the sample cut at offset i
Sample(ids, i, seqlen) ==
    << PySlice(ids, i, i + seqlen),
       PySlice(AttentionMask(ids), i, i + seqlen),
       Target(PySlice(ids, i, i + seqlen)) >>

\* Variant of LongEnough: >= for >
LongEnough_Geq(n, seqlen) == n >= seqlen

\* data.py:64: the record is long enough to cut a window from
LongEnough(n, seqlen) == n > seqlen

\* data.py:75: the validation records joined
ValRecords == 1100

\* data.py:77: the evaluation encoding holds at most this many windows
ValWindows == 256

\* Variant of ValLimit: the record count taken for the window count
ValLimit_Records(seqlen) == ValRecords * seqlen

\* data.py:77: the cap on the evaluation encoding
ValLimit(seqlen) == ValWindows * seqlen

\* The text of the first n records of an evaluation split v of v.n records
\* of v.len tokens each, joined
EvalText(v, n) == [i \in 1..(Min(v.n, n) * v.len) |-> 90 + (i % 7)]

\* data.py:75-78: the c4 evaluation encoding
C4ValEnc(v, max_length, seqlen) ==
    PySlice(Tokenize(EvalText(v, ValRecords), max_length), 0, ValLimit(seqlen))

\* data.py:32-33: the wikitext2 evaluation encoding
WikiTestEnc(v, max_length) == Tokenize(EvalText(v, v.n), max_length)

-----------------------------------------------------------------------------
(* lib/data.py: the inputs of a sampler call *)

MaxSamples == 2
MaxSeqLen == 2
MaxSeed == 1
MaxRetries == 2
MaxOthers == 1

WIKITEXT2 == <<"w","i","k","i","t","e","x","t","2">>
C4 == <<"c","4">>

\* a corpus name that holds both "c4" and "wikitext2"
C4_WIKITEXT2 == <<"c","4","-","w","i","k","i","t","e","x","t","2">>

\* corpus names: the two known ones, one that holds both, and the name main()
\* picks for VL models
CorpusNames == { WIKITEXT2, C4, C4_WIKITEXT2, QWEN25VL }

\* train splits, each a sequence of records given as token ids
TrainSets ==
    { << <<11, 12, 13, 14, 15>>, <<21, 22>> >>,
      << <<31>>, <<41, 42, 43>>, <<51, 52, 53, 54>> >>,
      << <<61, 62>> >>,
      << >> }

\* evaluation splits: records, tokens per record
EvalSets == { [n |-> 3, len |-> 1], [n |-> 1200, len |-> 1] }

\* tokenizers: without model_max_length, with a small one, with a large one
Tokenizers ==
    { [name |-> "tok"],
      [name |-> "tok", model_max_length |-> 3],
      [name |-> "tok", model_max_length |-> 1000000] }

DataInputs ==
    [ name : CorpusNames, nsamples : 0..MaxSamples, seed : 0..MaxSeed,
      seqlen : 0..MaxSeqLen, tokenizer : Tokenizers, traindata : TrainSets,
      evaldata : EvalSets ]

-----------------------------------------------------------------------------
(* lib/data.py: get_loaders, get_wikitext2, get_c4 *)

\* Variant of LoaderPath: the two tests in the other order
LoaderPath_C4First(name) ==
    IF Contains(name, C4) THEN "c4"
    ELSE IF Contains(name, WIKITEXT2) THEN "wikitext2"
    ELSE "None"

\* data.py:84-87: the path get_loaders takes for a corpus name
LoaderPath(name) ==
    IF Contains(name, WIKITEXT2) THEN "wikitext2"
    ELSE IF Contains(name, C4) THEN "c4"
    ELSE "None"

\* The running invocation ends: what it returned or raised is recorded, and
\* the caller is back in control
Finish(status, loader, evalenc) ==
    /\ results' = Append(results, [ status |-> status, trainloader |-> loader,
                                    evalenc |-> evalenc, cuts |-> cuts,
                                    retries |-> retries ])
    /\ dpc' = "idle"
    /\ trainenc' = <<>>
    /\ trainloader' = <<>>

\* data.py:83-87: a call of get_loaders; an unknown name falls off the end
\* of the function, which returns None
GetLoaders ==
    /\ dpc = "idle"
    /\ inv < 2
    /\ inv' = inv + 1
    /\ cuts' = <<>>
    /\ retries' = 0
    /\ picked' = -1
    /\ IF LoaderPath(din.name) = "wikitext2"
       THEN /\ dpc' = "w_encode"
            /\ UNCHANGED <<trainenc, trainloader, results>>
       ELSE IF LoaderPath(din.name) = "c4"
       THEN /\ dpc' = "c_seed"
            /\ UNCHANGED <<trainenc, trainloader, results>>
       ELSE /\ results' = Append(results, [ status |-> "None" ])
            /\ UNCHANGED <<dpc, trainenc, trainloader>>
    /\ UNCHANGED <<rng, din, others>>
    /\ UNCHANGED mainvars

\* data.py:26-37: encode the joined train split, seed the generator
WikiEncode ==
    /\ dpc = "w_encode"
    /\ trainenc' = Tokenize(Join(din.traindata),
                            MaxLength(din.tokenizer, din.seqlen))
    /\ rng' = RandomSeed(rng, din.seed)
    /\ trainloader' = <<>>
    /\ dpc' = "w_loop"
    /\ UNCHANGED <<din, inv, picked, cuts, retries, results, others>>
    /\ UNCHANGED mainvars

\* data.py:38-45: one iteration of the sampling loop
WikiSample ==
    /\ dpc = "w_loop"
    /\ Len(trainloader) < din.nsamples
    /\ LET hi == OffsetHi(Len(trainenc), din.seqlen)
           i == Randint(rng, 0, hi)
       IN  IF RandintRaises(0, hi)
           THEN /\ Finish("ValueError", <<>>, <<>>)
                /\ UNCHANGED <<rng, cuts>>
           ELSE /\ rng' = RngStep(rng)
                /\ trainloader' = Append(trainloader,
                                         Sample(trainenc, i, din.seqlen))
                /\ cuts' = Append(cuts, [ rec |-> -1, off |-> i,
                                          len |-> Len(trainenc) ])
                /\ UNCHANGED <<dpc, trainenc, results>>
    /\ UNCHANGED <<din, inv, picked, retries, others>>
    /\ UNCHANGED mainvars

\* data.py:46, with the test encoding of lines 32-33
WikiReturn ==
    /\ dpc = "w_loop"
    /\ Len(trainloader) = din.nsamples
    /\ Finish("ok", trainloader,
              WikiTestEnc(din.evaldata, MaxLength(din.tokenizer, din.seqlen)))
    /\ UNCHANGED <<rng, din, inv, picked, cuts, retries, others>>
    /\ UNCHANGED mainvars

\* data.py:54-59
C4Seed ==
    /\ dpc = "c_seed"
    /\ rng' = RandomSeed(rng, din.seed)
    /\ trainloader' = <<>>
    /\ dpc' = "c_loop"
    /\ UNCHANGED <<din, inv, picked, trainenc, cuts, retries, results, others>>
    /\ UNCHANGED mainvars

\* data.py:62: random.randint raised on an empty train split
C4PickRaise ==
    /\ Finish("ValueError", <<>>, <<>>)
    /\ UNCHANGED <<rng, picked, retries>>

\* data.py:62-65 with record index i drawn: encode the record, leave the
\* loop if it is long enough
C4PickAt(i) ==
    LET enc == Tokenize(din.traindata[i + 1],
                        MaxLength(din.tokenizer, din.seqlen))
    IN  /\ picked' = i
        /\ trainenc' = enc
        /\ retries' = IF LongEnough(Len(enc), din.seqlen)
                      THEN retries
                      ELSE Min(retries + 1, MaxRetries)
        /\ dpc' = IF LongEnough(Len(enc), din.seqlen)
                  THEN "c_cut" ELSE "c_loop"
        /\ UNCHANGED <<trainloader, results>>

\* data.py:61-65: one pass of the rejection loop: draw a record, encode it,
\* leave the loop if it is long enough
C4Pick ==
    /\ dpc = "c_loop"
    /\ Len(trainloader) < din.nsamples
    /\ LET hi == Len(din.traindata) - 1
       IN  IF RandintRaises(0, hi)
           THEN C4PickRaise
           ELSE /\ rng' = RngStep(rng)
                /\ C4PickAt(Randint(rng, 0, hi))
    /\ UNCHANGED <<din, inv, cuts, others>>
    /\ UNCHANGED mainvars

\* data.py:66: random.randint raised on an empty offset range
C4CutRaise ==
    /\ Finish("ValueError", <<>>, <<>>)
    /\ UNCHANGED <<rng, cuts>>

\* data.py:66-72 with start offset i drawn
C4CutAt(i) ==
    /\ trainloader' = Append(trainloader, Sample(trainenc, i, din.seqlen))
    /\ cuts' = Append(cuts, [ rec |-> picked, off |-> i,
                              len |-> Len(trainenc) ])
    /\ dpc' = "c_loop"
    /\ UNCHANGED <<trainenc, results>>

\* data.py:66-72: cut the window from the record the loop left with
C4Cut ==
    /\ dpc = "c_cut"
    /\ LET hi == OffsetHi(Len(trainenc), din.seqlen)
       IN  IF RandintRaises(0, hi)
           THEN C4CutRaise
           ELSE /\ rng' = RngStep(rng)
                /\ C4CutAt(Randint(rng, 0, hi))
    /\ UNCHANGED <<din, inv, picked, retries, others>>
    /\ UNCHANGED mainvars

\* data.py:74-80
C4Return ==
    /\ dpc = "c_loop"
    /\ Len(trainloader) = din.nsamples
    /\ Finish("ok", trainloader,
              C4ValEnc(din.evaldata, MaxLength(din.tokenizer, din.seqlen),
                       din.seqlen))
    /\ UNCHANGED <<rng, din, inv, picked, cuts, retries, others>>
    /\ UNCHANGED mainvars

\* Other code draws from the process-wide generator between sampler calls
OtherDraw ==
    /\ dpc = "idle"
    /\ others < MaxOthers
    /\ others' = others + 1
    /\ rng' = RngStep(rng)
    /\ UNCHANGED <<dpc, din, inv, picked, trainenc, trainloader, cuts,
                   retries, results>>
    /\ UNCHANGED mainvars

\* main()'s variables while only the sampler runs
MainIdle ==
    /\ args = CHOOSE a \in Args : TRUE
    /\ pc = "idle"
    /\ err = "none"
    /\ prune_n = 0
    /\ prune_m = 0
    /\ model = NoModel
    /\ processor = "None"
    /\ tokenizer = "None"
    /\ tok_attempts = <<>>
    /\ device = "None"
    /\ dataset_name = "None"
    /\ calls = <<>>
    /\ audit = 0
    /\ ppl = "None"
    /\ fs = [ dirs |-> {}, log |-> <<>>, saved |-> <<>> ]
    /\ stages = <<>>

\* The generator's state when the first call is made: whatever earlier
\* draws left
RngInits == {1, 17}

\* A process about to call the sampler twice with the same arguments
DataInit ==
    /\ rng \in RngInits
    /\ dpc = "idle"
    /\ din \in DataInputs
    /\ inv = 0
    /\ picked = -1
    /\ trainenc = <<>>
    /\ trainloader = <<>>
    /\ cuts = <<>>
    /\ retries = 0
    /\ results = <<>>
    /\ others = 0

SamplerInit ==
    /\ MainIdle
    /\ DataInit

SamplerNext ==
    \/ GetLoaders
    \/ WikiEncode
    \/ WikiSample
    \/ WikiReturn
    \/ C4Seed
    \/ C4Pick
    \/ C4Cut
    \/ C4Return
    \/ OtherDraw

SpecSampler == SamplerInit /\ [][SamplerNext]_vars

-----------------------------------------------------------------------------
(* lib/data.py: get_c4 with the draws left open *)

\* data.py:61-65 when the seed is not known: random.randint(0, n - 1) may
\* return any record index (the generator's state is then not followed)
C4PickUniform ==
    /\ dpc = "c_loop"
    /\ Len(trainloader) < din.nsamples
    /\ LET hi == Len(din.traindata) - 1
       IN  IF RandintRaises(0, hi)
           THEN C4PickRaise
           ELSE /\ \E i \in 0..hi : C4PickAt(i)
                /\ UNCHANGED rng
    /\ UNCHANGED <<din, inv, cuts, others>>
    /\ UNCHANGED mainvars

\* data.py:66-72 when the seed is not known: any offset of the range
C4CutUniform ==
    /\ dpc = "c_cut"
    /\ LET hi == OffsetHi(Len(trainenc), din.seqlen)
       IN  IF RandintRaises(0, hi)
           THEN C4CutRaise
           ELSE /\ \E i \in 0..hi : C4CutAt(i)
                /\ UNCHANGED rng
    /\ UNCHANGED <<din, inv, picked, retries, others>>
    /\ UNCHANGED mainvars

\* A pass of the rejection loop that draws a long enough record
C4Accept ==
    /\ C4PickUniform
    /\ dpc' = "c_cut"

\* Calls of get_loaders("c4", ...)
C4Inputs == { d \in DataInputs : d.name = C4 /\ d.seed = 0 }

C4Init ==
    /\ MainIdle
    /\ rng = 1
    /\ dpc = "idle"
    /\ din \in C4Inputs
    /\ inv = 0
    /\ picked = -1
    /\ trainenc = <<>>
    /\ trainloader = <<>>
    /\ cuts = <<>>
    /\ retries = 0
    /\ results = <<>>
    /\ others = 0

\* The one call of get_loaders followed here
C4Call ==
    /\ inv = 0
    /\ GetLoaders

C4Next ==
    \/ C4Call
    \/ C4Seed
    \/ C4PickUniform
    \/ C4CutUniform
    \/ C4Return

\* The calls are made and every statement that can run does (the code is
\* sequential and blocking); a uniform draw that is repeated for ever
\* returns every index of its range, so a record that can be accepted is
\* accepted in the end
SpecC4Uniform ==
    /\ C4Init
    /\ [][C4Next]_vars
    /\ WF_vars(C4Next)
    /\ WF_vars(C4Accept)

\* The sampler's variables while main() runs: the sampler is idle
DataIdle ==
    /\ rng = 0
    /\ dpc = "idle"
    /\ din = <<>>
    /\ inv = 0
    /\ picked = -1
    /\ trainenc = <<>>
    /\ trainloader = <<>>
    /\ cuts = <<>>
    /\ retries = 0
    /\ results = <<>>
    /\ others = 0

\* main() entered with a parsed command line; the save directory may exist
MainInit ==
    /\ args \in Args
    /\ pc = "configure"
    /\ err = "none"
    /\ prune_n = 0
    /\ prune_m = 0
    /\ model = NoModel
    /\ processor = "None"
    /\ tokenizer = "None"
    /\ tok_attempts = <<>>
    /\ device = "None"
    /\ dataset_name = "None"
    /\ calls = <<>>
    /\ audit = 0
    /\ ppl = "None"
    /\ fs \in [ dirs : {{}, {"out"}}, log : {<<>>}, saved : {<<>>} ]
    /\ stages = <<>>

Init ==
    /\ MainInit
    /\ DataIdle

Next ==
    \/ Configure
    \/ Load
    \/ ResolveTokenizer
    \/ SelectDevice
    \/ SelectCorpus
    \/ Dispatch
    \/ Audit
    \/ Evaluate
    \/ Persist
    \/ SaveModel

Spec == Init /\ [][Next]_vars

-----------------------------------------------------------------------------
(* Properties of a pruning run (Spec) *)

\* The five pruning criteria of lib.prune
CriterionFns ==
    {"prune_wanda", "prune_gblm", "prune_magnitude", "prune_gradient",
     "prune_sparsegpt"}

\* The calls made so far to a pruning criterion
CriterionCalls == SelectSeq(calls, LAMBDA c : c.fn \in CriterionFns)

\* Stage st of main() was entered
Entered(st) == \E i \in 1..Len(stages) : stages[i] = st

\* The run ended
Terminated == pc \in {"done", "failed"}

\* C1: a request whose sparsity_type is not "unstructured" and whose
\* sparsity_ratio is not 0.5 is rejected at Configure (the assert raises) and
\* get_llm is never attempted in that run.
C1_RejectedBeforeLoad ==
    (args.sparsity_type # Unstructured /\ args.sparsity_ratio # 5) =>
        /\ pc \in {"configure", "failed"}
        /\ pc = "failed" => err = "AssertionError" /\ stages = <<"Configure">>
        /\ ~Entered("Load")
        /\ model = NoModel

\* C1 witness: "2:4" with ratio 0.3 has been rejected.
C1_Witness ==
    /\ args.sparsity_type = <<"2", ":", "4">>
    /\ args.sparsity_ratio = 3
    /\ pc = "failed"
    /\ err = "AssertionError"

\* C2: a run with sparsity_ratio != 0 that has been through Dispatch has
\* called exactly one of the five criteria, once, with (request, model,
\* tokenizer, device, prune_n, prune_m, layer_no).
C2_ExactlyOneCriterion ==
    (args.sparsity_ratio # 0 /\ Entered("Dispatch")) =>
        /\ Len(CriterionCalls) = 1
        /\ CriterionCalls[1].request = args
        /\ CriterionCalls[1].model = model.kind
        /\ CriterionCalls[1].tokenizer = tokenizer
        /\ CriterionCalls[1].device = device
        /\ CriterionCalls[1].prune_n = prune_n
        /\ CriterionCalls[1].prune_m = prune_m
        /\ CriterionCalls[1].layer_no = args.layer_no

\* The exceptions that come from outside main(): a load, a criterion, the
\* audit, the evaluation or a save failing, or a placement map without
\* "lm_head"
OutsideErrors == {"OSError", "ImportError", "RuntimeError", "KeyError"}

\* log.txt holds the header row and one data row
LogWritten ==
    /\ Len(fs.log) = 2
    /\ fs.log[1] = "actual_sparsity\tppl"
    /\ fs.log[2] = [ actual_sparsity |-> audit, ppl |-> ppl ]

C9_LoaderPrecedence ==
    model # NoModel =>
        LET id == ToLower(args.model) IN
        /\ Contains(id, LLAVA) =>
               model.kind = "LlavaForConditionalGeneration" /\ processor = "None"
        /\ (~Contains(id, LLAVA) /\ Contains(id, VL)) =>
               model.kind = "AutoModelForVision2Seq" /\ processor = "AutoProcessor"
        /\ (~Contains(id, LLAVA) /\ ~Contains(id, VL)) =>
               model.kind = "AutoModelForCausalLM" /\ processor = "None"
        /\ processor # "None" <=> model.kind = "AutoModelForVision2Seq"
        /\ model.seqlen = 2048

\* C9 witness: an identifier with both "llava" and "vl" was loaded as LLaVA.
C9_Witness ==
    /\ Contains(ToLower(args.model), LLAVA)
    /\ Contains(ToLower(args.model), VL)
    /\ model.kind = "LlavaForConditionalGeneration"
    /\ processor = "None"

\* A 30B, 65B or 70B parameter marker, in either case of the letter
HasParamMarker(id) ==
    \/ Contains(ToLower(id), <<"3","0","b">>)
    \/ Contains(ToLower(id), <<"6","5","b">>)
    \/ Contains(ToLower(id), <<"7","0","b">>)

\* C10: the device passed to the criterion and to eval_ppl is the one hosting
\* lm_head for an identifier with a 30B, 65B or 70B marker, and cuda:0 for
\* every other identifier.
C10_DeviceSelection ==
    \A i \in 1..Len(calls) :
        calls[i].fn \in CriterionFns \cup {"eval_ppl"} =>
            IF HasParamMarker(args.model)
            THEN "lm_head" \in DOMAIN model.hf_device_map =>
                     calls[i].device = model.hf_device_map["lm_head"]
            ELSE calls[i].device = "cuda:0"

\* C11: a request for which the model load is attempted has
\* 0 <= sparsity_ratio and, when its sparsity_type is structured,
\* sparsity_ratio == 0.5; prune_n and prune_m are the integers of "N:M" for
\* a structured type and 0, 0 for unstructured.
C11_ConfigureInvariant ==
    Entered("Load") =>
        /\ 0 <= args.sparsity_ratio
        /\ args.sparsity_type # Unstructured => args.sparsity_ratio = 5
        /\ args.sparsity_type = <<"2", ":", "4">> => prune_n = 2 /\ prune_m = 4
        /\ args.sparsity_type = <<"4", ":", "8">> => prune_n = 4 /\ prune_m = 8
        /\ args.sparsity_type = Unstructured => prune_n = 0 /\ prune_m = 0
        /\ args.sparsity_type # None

\* The stages of main() in the order of its statements
StageOrder ==
    << "Configure", "Load", "ResolveTokenizer", "SelectDevice", "SelectCorpus",
       "Dispatch", "Audit", "Evaluate", "Persist", "SaveModel" >>

\* Call fn was made
Called(fn) == \E i \in 1..Len(calls) : calls[i].fn = fn

\* C13: the stages occur in the order Configure, Load, tokenizer resolution,
\* Select device, Select corpus, Dispatch, Audit, Evaluate, Persist, each at
\* most once; a failure in a stage ends the run, no later stage executes;
\* the log is written only after check_sparsity and eval_ppl have completed,
\* Audit runs only after Dispatch has finished, and the model is saved only
\* after the log has been written.
C13_StageOrder ==
    /\ Len(stages) <= Len(StageOrder)
    /\ \A i \in 1..Len(stages) : stages[i] = StageOrder[i]
    /\ err # "none" => pc = "failed" /\ ~ENABLED Next
    /\ pc = "failed" => err # "none"
    /\ fs.log # <<>> =>
           /\ Called("check_sparsity") /\ Called("eval_ppl")
           /\ ppl \in PplValues
           /\ fs.log[2] = [ actual_sparsity |-> audit, ppl |-> ppl ]
    /\ Called("check_sparsity") =>
           /\ Entered("Dispatch")
           /\ pc # "dispatch"
           /\ \A i \in 1..Len(calls) :
                  calls[i].fn \in CriterionFns =>
                      /\ i = 1
                      /\ model.pruned_by = calls[i].fn
    /\ fs.saved # <<>> => fs.log # <<>> /\ stages[Len(stages)] = "SaveModel"

\* C13 witness: a run went through all the stages, pruned, logged and saved.
C13_Witness ==
    /\ pc = "done"
    /\ stages = StageOrder
    /\ Len(CriterionCalls) = 1
    /\ fs.saved # <<>>

\* C13 witness of a failure: the criterion raised and the run ended there.
C13_WitnessFailure ==
    /\ pc = "failed"
    /\ stages[Len(stages)] = "Dispatch"
    /\ Len(calls) = 1

\* C14: every run that completes Evaluate reaches Persist and writes
\* <save_dir>/log.txt with exactly the header row and one data row, creating
\* the directory, and saves the model and tokenizer if and only if a model
\* save path was supplied (a failure of the file system apart).
C14_PersistWrites ==
    (Entered("Evaluate") /\ ppl \in PplValues) =>
        /\ ~Terminated => ENABLED Next
        /\ (Terminated /\ err \notin OutsideErrors) =>
               /\ Entered("Persist")
               /\ LogWritten
               /\ args.save \in fs.dirs
               /\ fs.saved # <<>> <=> args.save_model # "None"

\* C15: the calibration corpus chosen at Select corpus is what the pruning
\* criterion dispatched in the same run is handed: every call to a criterion
\* has the selected corpus among its arguments.
C15_CorpusPassed ==
    \A i \in 1..Len(calls) :
        calls[i].fn \in CriterionFns =>
            /\ "dataset_name" \in DOMAIN calls[i]
            /\ calls[i].dataset_name = dataset_name

\* The run failed in tokenizer resolution
TokenizerFailed ==
    /\ pc = "failed"
    /\ stages[Len(stages)] = "ResolveTokenizer"

\* C16: tokenizer resolution follows a one-step fallback chain per branch.
\* With a processor the "language_model" subfolder tokenizer is tried first
\* and on failure the base-model tokenizer once; for a LLaVA identifier with
\* no processor the specialised class first and on failure the generic one
\* once; for every other identifier the generic tokenizer once, no fallback.
\* The tokenizer used is the last one tried, a failure of the fallback (or of
\* the only attempt) aborts the run, and no branch tries more than twice.
C16_TokenizerFallback ==
    Entered("ResolveTokenizer") =>
        /\ Len(tok_attempts) \in {1, 2}
        /\ processor # "None" =>
               /\ tok_attempts[1] = "AutoTokenizer:language_model"
               /\ Len(tok_attempts) = 2 => tok_attempts[2] = "AutoTokenizer"
        /\ (processor = "None" /\ Contains(ToLower(args.model), <<"l","l","a","v","a">>)) =>
               /\ tok_attempts[1] = "LlamaTokenizer"
               /\ Len(tok_attempts) = 2 => tok_attempts[2] = "AutoTokenizer"
        /\ (processor = "None" /\ ~Contains(ToLower(args.model), <<"l","l","a","v","a">>)) =>
               tok_attempts = << "AutoTokenizer" >>
        /\ IF TokenizerFailed
           THEN /\ tokenizer = "None"
                /\ tok_attempts[Len(tok_attempts)] = "AutoTokenizer"
                /\ ~ENABLED Next
           ELSE tokenizer = tok_attempts[Len(tok_attempts)]

\* C16 witness: the subfolder tokenizer failed, the base-model tokenizer
\* loaded and the run went on with it.
C16_Witness ==
    /\ processor # "None"
    /\ tok_attempts = << "AutoTokenizer:language_model", "AutoTokenizer" >>
    /\ tokenizer = "AutoTokenizer"
    /\ pc = "device"

\* C16 witness: for a LLaVA identifier both attempts failed and the run ended.
C16_WitnessAbort ==
    /\ TokenizerFailed
    /\ tok_attempts = << "LlamaTokenizer", "AutoTokenizer" >>

\* C19: the corpus is overridden to the vision-language corpus name if and
\* only if get_llm took the vision-to-sequence branch (returned a processor);
\* a run in which get_llm took the LLaVA or the causal-LM branch keeps "c4".
C19_FamilyAgreement ==
    Entered("SelectCorpus") =>
        /\ dataset_name = "qwen2.5-vl" <=> processor # "None"
        /\ model.kind \in {"LlavaForConditionalGeneration", "AutoModelForCausalLM"} =>
               dataset_name = "c4"

-----------------------------------------------------------------------------
(* Properties of the sampler (SpecSampler) *)

\* The invocations that returned a CalibrationSet
Returned == { i \in 1..Len(results) : results[i].status = "ok" }

\* Every sample produced so far: by the running invocation and by those
\* that returned
AllSamples ==
    { trainloader[i] : i \in 1..Len(trainloader) } \cup
    UNION { { results[i].trainloader[j] : j \in 1..Len(results[i].trainloader) } :
            i \in Returned }

\* Every slice taken so far
AllCuts ==
    { cuts[i] : i \in 1..Len(cuts) } \cup
    UNION { { results[i].cuts[j] : j \in 1..Len(results[i].cuts) } :
            i \in Returned }

\* C4: every sample of get_wikitext2 and get_c4 has an input window, an
\* attention window and a target window of exactly seqlen entries, and its
\* target window equals its input window.
C4_WindowShape ==
    \A sm \in AllSamples :
        /\ Len(sm[1]) = din.seqlen
        /\ Len(sm[2]) = din.seqlen
        /\ Len(sm[3]) = din.seqlen
        /\ sm[3] = sm[1]

\* C4 witness: an invocation has returned a full set of windows of
\* two tokens or more, cut from a longer encoding.
C4_Witness ==
    /\ Len(results) > 0
    /\ results[1].status = "ok"
    /\ din.nsamples = MaxSamples
    /\ Len(results[1].trainloader) = MaxSamples
    /\ din.seqlen >= 2
    /\ \E c \in AllCuts : c.off > 0

\* C5: every start offset i used to cut a window satisfies
\* 0 <= i <= L - seqlen - 1 for the length L of the encoding sliced, so the
\* slice [i, i + seqlen) lies inside the encoding.
C5_OffsetInRange ==
    \A c \in AllCuts :
        /\ 0 <= c.off
        /\ c.off <= c.len - din.seqlen - 1
        /\ c.off + din.seqlen <= c.len

\* C5 witness: a window was cut at the largest offset allowed.
C5_Witness ==
    \E c \in AllCuts :
        /\ c.off = c.len - din.seqlen - 1
        /\ c.off > 0
        /\ din.seqlen > 0

\* C6: two invocations with the same arguments on the same corpus draw the
\* same record indices and start offsets and return the same CalibrationSet
\* and evaluation encoding, whatever was drawn from the generator before
\* each.
C6_Deterministic ==
    Len(results) = 2 => results[1] = results[2]

\* C6 witness: two c4 invocations returned samples, with a foreign draw
\* made from the generator along the way.
C6_Witness ==
    /\ Len(results) = 2
    /\ results[1].status = "ok"
    /\ results[2].status = "ok"
    /\ LoaderPath(din.name) = "c4"
    /\ Len(results[2].trainloader) >= 2
    /\ results[2].retries > 0
    /\ others > 0

\* C7: in the c4 path the record a window is cut from has more than seqlen
\* tokens when the start offset is drawn; a record of seqlen tokens or fewer
\* is never sliced.
C7_RecordLongEnough ==
    /\ dpc = "c_cut" => Len(trainenc) > din.seqlen
    /\ LoaderPath(din.name) = "c4" =>
           \A c \in AllCuts :
               /\ c.len > din.seqlen
               /\ c.len = Len(Tokenize(din.traindata[c.rec + 1],
                                       MaxLength(din.tokenizer, din.seqlen)))

\* C7 witness: the loop rejected a short record and then left with a long
\* one, whose offset is about to be drawn.
C7_Witness ==
    /\ dpc = "c_cut"
    /\ retries > 0
    /\ \E r \in 1..Len(din.traindata) : Len(din.traindata[r]) <= din.seqlen

\* C8: the evaluation encoding get_c4 returns has at most 256 * seqlen
\* tokens.
C8_EvalCap ==
    \A i \in Returned :
        LoaderPath(din.name) = "c4" =>
            Len(results[i].evalenc) <= ValWindows * din.seqlen

\* C8 witness: a validation text longer than the cap came back cut to
\* exactly 256 * seqlen tokens.
C8_Witness ==
    /\ LoaderPath(din.name) = "c4"
    /\ din.seqlen > 0
    /\ Len(results) > 0
    /\ results[1].status = "ok"
    /\ Len(results[1].evalenc) = ValWindows * din.seqlen
    /\ Len(EvalText(din.evaldata, ValRecords)) > ValWindows * din.seqlen

-----------------------------------------------------------------------------
(* Properties of get_c4 under uniform draws (SpecC4Uniform) *)

\* Some train record has more than seqlen tokens after truncation
HasLongRecord ==
    \E r \in 1..Len(din.traindata) :
        Len(Tokenize(din.traindata[r], MaxLength(din.tokenizer, din.seqlen)))
            > din.seqlen

\* The invocation returned a CalibrationSet of nsamples samples
ReturnedFull ==
    /\ dpc = "idle"
    /\ Len(results) = 1
    /\ results[1].status = "ok"
    /\ Len(results[1].trainloader) = din.nsamples

\* C12 as stated: with a long enough record get_c4 returns nsamples samples
\* in the end; with none it never returns, never produces a sample and
\* never raises.
C12_AsStated ==
    /\ (dpc = "c_seed" /\ HasLongRecord) ~> ReturnedFull
    /\ [](~HasLongRecord =>
              results = <<>> /\ trainloader = <<>> /\ dpc # "c_cut")

\* The rejection loop is entered with no record it can accept
Starved ==
    /\ ~HasLongRecord
    /\ din.nsamples > 0
    /\ din.traindata # <<>>

\* C12 amended: with a long enough record get_c4 returns nsamples samples
\* in the end; with none, a non-empty train split and nsamples > 0 it stays
\* in the rejection loop for ever, rejecting record after record: it never
\* returns, never produces a sample and never raises.
C12_UnboundedRetry ==
    /\ (dpc = "c_seed" /\ HasLongRecord) ~> ReturnedFull
    /\ [](Starved =>
              /\ results = <<>> /\ trainloader = <<>> /\ cuts = <<>>
              /\ dpc \in {"idle", "c_seed", "c_loop"})
    /\ (Starved /\ dpc = "c_loop") ~> [](dpc = "c_loop" /\ retries = MaxRetries)

\* C12 witness: the invocation returned its samples after the loop had
\* rejected records.
C12_Witness ==
    /\ HasLongRecord
    /\ ReturnedFull
    /\ din.nsamples = MaxSamples
    /\ retries = MaxRetries

\* C12 witness of the starved loop: MaxRetries records rejected, none kept.
C12_WitnessStarved ==
    /\ Starved
    /\ dpc = "c_loop"
    /\ retries = MaxRetries
    /\ \E r \in 1..Len(din.traindata) : Len(din.traindata[r]) > din.seqlen

-----------------------------------------------------------------------------
(* Further properties of the sampler (SpecSampler) *)

\* C17: get_loaders resolves the corpus by substring, wikitext2 before c4: a
\* name containing "wikitext2" takes the wikitext2 path even if it also
\* contains "c4", otherwise a name containing "c4" takes the c4 path, and any
\* other name ("qwen2.5-vl" included) yields no result and raises no error.
C17_SubstringPrecedence ==
    LET wiki == Contains(din.name, <<"w","i","k","i","t","e","x","t","2">>)
        c4 == Contains(din.name, <<"c","4">>)
    IN  /\ wiki =>
               /\ dpc \in {"idle", "w_encode", "w_loop"}
               /\ \A c \in AllCuts : c.rec = -1
               /\ \A i \in 1..Len(results) :
                      results[i].status \in {"ok", "ValueError"}
        /\ (~wiki /\ c4) =>
               /\ dpc \in {"idle", "c_seed", "c_loop", "c_cut"}
               /\ \A c \in AllCuts : c.rec >= 0
               /\ \A i \in 1..Len(results) :
                      results[i].status \in {"ok", "ValueError"}
        /\ (~wiki /\ ~c4) =>
               /\ dpc = "idle"
               /\ trainloader = <<>> /\ cuts = <<>>
               /\ Len(results) = inv
               /\ \A i \in 1..Len(results) : results[i] = [ status |-> "None" ]
        /\ (inv > 0 /\ dpc = "idle") => Len(results) = inv

\* C17 witness: a name with both substrings is being sampled as wikitext2.
C17_Witness ==
    /\ Contains(din.name, <<"c","4">>)
    /\ Contains(din.name, <<"w","i","k","i","t","e","x","t","2">>)
    /\ dpc = "w_loop"
    /\ cuts # <<>>

\* C17 witness: the name main() picks for VL models gave no result, twice.
C17_WitnessNone ==
    /\ din.name = <<"q","w","e","n","2",".","5","-","v","l">>
    /\ inv = 2
    /\ results = << [ status |-> "None" ], [ status |-> "None" ] >>

\* The number of tokens in a sequence of records
RECURSIVE TotalLen(_)
TotalLen(records) ==
    IF records = <<>> THEN 0 ELSE Len(Head(records)) + TotalLen(Tail(records))

\* The length of the wikitext2 train encoding of the call's inputs: the whole
\* text, cut at model_max_length if the tokenizer has one, else at seqlen
TruncatedTrainLen ==
    LET cap == IF "model_max_length" \in DOMAIN din.tokenizer
               THEN din.tokenizer.model_max_length
               ELSE din.seqlen
    IN  IF TotalLen(din.traindata) <= cap THEN TotalLen(din.traindata) ELSE cap

\* C18: get_wikitext2 returns exactly nsamples samples if and only if
\* nsamples == 0 or the train encoding, truncated to max_length, is strictly
\* longer than seqlen; otherwise the first offset draw raises and neither
\* samples nor an evaluation encoding are returned.  With a tokenizer that
\* has no model_max_length and nsamples > 0 it always fails.
C18_WikiReturnsIff ==
    Contains(din.name, <<"w","i","k","i","t","e","x","t","2">>) =>
        LET fits == din.nsamples = 0 \/ TruncatedTrainLen > din.seqlen IN
        /\ \A i \in 1..Len(results) :
               /\ results[i].status = "ok" <=> fits
               /\ results[i].status = "ok" =>
                      Len(results[i].trainloader) = din.nsamples
               /\ results[i].status # "ok" =>
                      /\ results[i].status = "ValueError"
                      /\ results[i].trainloader = <<>>
                      /\ results[i].evalenc = <<>>
                      /\ results[i].cuts = <<>>
        /\ ~fits => trainloader = <<>> /\ cuts = <<>>
        /\ (inv > 0 /\ dpc = "idle") => Len(results) = inv
        /\ ("model_max_length" \notin DOMAIN din.tokenizer /\ din.nsamples > 0) =>
               ~fits

\* C18 witness: get_wikitext2 returned MaxSamples samples from an encoding
\* truncated to a model_max_length above seqlen.
C18_Witness ==
    /\ Contains(din.name, <<"w","i","k","i","t","e","x","t","2">>)
    /\ din.nsamples = MaxSamples
    /\ TruncatedTrainLen < TotalLen(din.traindata)
    /\ Len(results) >= 1
    /\ results[1].status = "ok"
    /\ Len(results[1].trainloader) = MaxSamples

\* C18 witness: with no model_max_length the first offset draw raised although
\* the train text is longer than seqlen.
C18_WitnessFails ==
    /\ Contains(din.name, <<"w","i","k","i","t","e","x","t","2">>)
    /\ "model_max_length" \notin DOMAIN din.tokenizer
    /\ TotalLen(din.traindata) > din.seqlen
    /\ Len(results) >= 1
    /\ results[1].status = "ValueError"

=============================================================================
